---- MODULE Spec2Model ----
(***************************************************************************)
(* Model of brassband.analyse (src/brassband.py): the Monte-Carlo          *)
(* estimate of promotion / stay / relegation per finishing position.       *)
(*                                                                         *)
(* numpy arrays are sequences; a 0-based index x of the source is the      *)
(* element x+1 here, and numpy's rules for an index (negative indices      *)
(* count from the end, anything outside -n..n-1 raises IndexError) are     *)
(* kept in InRange / At.  randrange is a nondeterministic choice.          *)
(* Scores are integers (the csv holds placings).                           *)
(***************************************************************************)
EXTENDS Integers, Sequences, FiniteSets

VARIABLES
    names,            \* read_csv: band names, in file order
    start,            \* twoYearsAgo + lastYear
    nPromoted,        \* parameter
    nRelegated,       \* parameter
    nSamplesPerBand,  \* parameter
    absentBands,      \* parameter: the list of names given as absent
    i,                \* outer loop index (0-based), the target band
    j,                \* trial loop index: trials completed in this batch
    promoted,         \* counters: arrays (present band) or scalars (absent band)
    stay,
    relegated,
    result,           \* the reused array of drawn placings
    final,            \* the sorted final scores of the last trial
    iTotal,           \* the target's final score in the last trial
    out,              \* the rows printed for the band reported last
    pc,               \* "band" | "trial" | "done" | "error"
    err,              \* the exception that ended the run, or "none"
    choices,          \* history: the randrange values of the last trial
    landed            \* history: per placing, this batch's trials that drew it for the target

vars == <<names, start, nPromoted, nRelegated, nSamplesPerBand, absentBands,
          i, j, promoted, stay, relegated, result, final, iTotal, out, pc,
          err, choices, landed>>

inputs == <<names, start, nPromoted, nRelegated, nSamplesPerBand, absentBands>>

(***************************************************************************)
(* Bounds of the model.                                                    *)
(***************************************************************************)
MaxBands == 3
MaxPrior == 1
MaxTrials == 3

Max(a, b) == IF a > b THEN a ELSE b
Min(a, b) == IF a < b THEN a ELSE b

(***************************************************************************)
(* Derived quantities of analyse's prologue.                               *)
(***************************************************************************)
nBands == Len(start)

nPlayed == nBands - Len(absentBands)

nSamples == nSamplesPerBand * nBands

Elements(s) == {s[k] : k \in 1..Len(s)}

absent == [k \in 1..nBands |-> names[k] \in Elements(absentBands)]

NumPresent == Cardinality({k \in 1..nBands : ~absent[k]})

(***************************************************************************)
(* numpy / list helpers.                                                   *)
(***************************************************************************)
Zeros(n) == [k \in 1..n |-> 0]

Range1(n) == [k \in 1..Max(n, 0) |-> k]

InRange(n, x) == -n <= x /\ x <= n - 1

At(arr, x) == arr[(IF x < 0 THEN x + Len(arr) ELSE x) + 1]

Bump(arr, x) == [arr EXCEPT ![(IF x < 0 THEN x + Len(arr) ELSE x) + 1] = @ + 1]

\* Mutation: the pop always returns the first placing left.
PopValueFirst(placings, x) == placings[1]

PopValue(placings, x) == placings[x + 1]

\* Mutation: the drawn placing is not removed (a draw with replacement).
PopRestKeep(placings, x) == placings

PopRest(placings, x) ==
    [k \in 1..(Len(placings) - 1) |-> IF k <= x THEN placings[k] ELSE placings[k + 1]]

RECURSIVE Insert(_, _)
Insert(s, v) ==
    IF s = <<>> THEN <<v>>
    ELSE IF v < Head(s) THEN <<v>> \o s
    ELSE <<Head(s)>> \o Insert(Tail(s), v)

RECURSIVE Sort(_)
Sort(s) == IF s = <<>> THEN <<>> ELSE Insert(Sort(Tail(s)), Head(s))

(***************************************************************************)
(* One trial: the draw (lines 106-112 and 153-159).                        *)
(***************************************************************************)
AbsentValue == nPlayed + 1

\* The randrange values a trial can consume: one per pop, the t-th among
\* the indices 0..left-1 of the placings left.  A pop from the empty list
\* consumes none: randrange(0) raises ValueError.
RECURSIVE IndexChoices(_, _)
IndexChoices(pops, left) ==
    IF pops = 0 \/ left <= 0 THEN {<<>>}
    ELSE {<<x>> \o c : x \in 0..(left - 1), c \in IndexChoices(pops - 1, left - 1)}

RandomDraws == IndexChoices(NumPresent, nPlayed)

\* for k in range(len(result)): the loop from band k on, t - 1 pops done.
RECURSIVE DrawLoop(_, _, _, _, _)
DrawLoop(k, t, placings, res, c) ==
    IF k > Len(res) THEN [ok |-> TRUE, result |-> res]
    ELSE IF absent[k]
         THEN DrawLoop(k + 1, t, placings, [res EXCEPT ![k] = AbsentValue], c)
    ELSE IF Len(placings) = 0 THEN [ok |-> FALSE, result |-> res]
    ELSE DrawLoop(k + 1, t + 1, PopRest(placings, c[t]),
                  [res EXCEPT ![k] = PopValue(placings, c[t])], c)

Draw(res, c) == DrawLoop(1, 1, Range1(nPlayed), res, c)

(***************************************************************************)
(* One trial: scores and classification (lines 113-125 and 160-174).       *)
(***************************************************************************)
Combine(st, res) == [k \in 1..Len(st) |-> st[k] + res[k]]

\* start is an operand of "start + result", which builds a new array: the
\* in-place sort of that array leaves start as it was.
\* Mutation: the scores are accumulated and sorted in start itself.
StartAliased(st, srt) == srt

StartAfterTrial(st, srt) == st

\* Mutation: a score tied with the promotion cutoff is promoted.
IsPromotedLoose(total, srt) == total <= At(srt, nPromoted)

IsPromoted(total, srt) == total < At(srt, nPromoted)

\* Mutation: a score tied with the relegation cutoff stays.
IsStayLoose(total, srt) == total <= At(srt, nBands - nRelegated)

IsStay(total, srt) == total < At(srt, nBands - nRelegated)

\* The if / elif / else chain, with the IndexError of an index outside
\* -nBands..nBands-1; the elif's index is evaluated only when the if fails.
Classify(total, srt) ==
    IF ~InRange(Len(srt), nPromoted) THEN "IndexError"
    ELSE IF IsPromoted(total, srt) THEN "promoted"
    ELSE IF ~InRange(Len(srt), nBands - nRelegated) THEN "IndexError"
    ELSE IF IsStay(total, srt) THEN "stay"
    ELSE "relegated"

\* Mutation: the placing itself is used as the index.
BucketIndexOffByOne(res) == res[i + 1]

\* iResult = result[i]-1
BucketIndex(res) == res[i + 1] - 1

\* The counter after "counter[iResult] += 1" (present band) or
\* "counter += 1" (absent band), for the branch taken.
Count(counter, branch, cls, res) ==
    IF cls # branch THEN counter
    ELSE IF absent[i + 1] THEN counter + 1
    ELSE Bump(counter, BucketIndex(res))

(***************************************************************************)
(* Percentages (lines 127-133 and 176-182).  A float is kept as the exact  *)
(* fraction num/den; numpy's 0/0 is nan.                                   *)
(***************************************************************************)
NaN == [nan |-> TRUE, num |-> 0, den |-> 0]

Percent(count, total) ==
    IF total = 0 THEN NaN ELSE [nan |-> FALSE, num |-> 100 * count, den |-> total]

Row(place, isAbsent, p, s, r) ==
    [place |-> place, absent |-> isAbsent,
     promote |-> Percent(p, p + s + r),
     stay |-> Percent(s, p + s + r),
     relegate |-> Percent(r, p + s + r)]

PresentRows == [k \in 1..nPlayed |-> Row(k, FALSE, promoted[k], stay[k], relegated[k])]

AbsentRows == <<Row(nPlayed + 1, TRUE, promoted, stay, relegated)>>

\* Number of trials of the current batch.
Limit == IF absent[i + 1] THEN nSamplesPerBand ELSE nSamples

(***************************************************************************)
(* The inputs explored: sections of at most MaxBands bands with prior      *)
(* totals in 0..MaxPrior, and batches of at most MaxTrials trials.         *)
(***************************************************************************)
BandNames == <<"A", "B", "C", "D", "E", "F">>

\* A table with distinct names, as the data model has it.
Table(n) == [k \in 1..n |-> BandNames[k]]

\* The same table with its last band sharing the first band's name.
TableWithTwin(n) == [k \in 1..n |-> IF k = n THEN BandNames[1] ELSE BandNames[k]]

RECURSIVE NamesOf(_, _)
NamesOf(nm, S) ==
    IF S = {} THEN <<>>
    ELSE LET k == CHOOSE x \in S : \A y \in S : x <= y
         IN  <<nm[k]>> \o NamesOf(nm, S \ {k})

\* The lists naming distinct bands of the table, each band at most once.
AbsenceLists(nm) == {NamesOf(nm, S) : S \in SUBSET (1..Len(nm))}

\* Lists of distinct names, of bands of the table or of no band ("X").
LooseLists(nm) ==
    LET known == Elements(nm) \cup {"X"}
    IN  {<<>>} \cup {<<x>> : x \in known}
               \cup {l \in {<<x, y>> : x \in known, y \in Elements(nm)} : l[1] # l[2]}

ValidCutoffs(n) == {c \in (0..n) \X (0..n) : c[1] + c[2] < n}

\* Prior totals rising with the table position, up to MaxPrior.
Ladder(n) == [k \in 1..n |-> Min(k - 1, MaxPrior)]

Locals ==
    /\ i = 0
    /\ j = 0
    /\ promoted = 0
    /\ stay = 0
    /\ relegated = 0
    /\ result = <<>>
    /\ final = <<>>
    /\ iTotal = 0
    /\ out = <<>>
    /\ pc = "band"
    /\ err = "none"
    /\ choices = <<>>
    /\ landed = <<>>

\* Whole batches, on valid configurations with well-formed absences.
Init ==
    /\ \E n \in 1..MaxBands :
         /\ names = Table(n)
         /\ start = Ladder(n)
         /\ \E c \in ValidCutoffs(n) : nPromoted = c[1] /\ nRelegated = c[2]
    /\ nSamplesPerBand \in 0..MaxTrials
    /\ nSamplesPerBand * Len(names) <= MaxTrials
    /\ absentBands \in AbsenceLists(names)
    /\ Locals

\* The first trial of each batch, on every valid configuration.
InitTrial ==
    /\ \E n \in 1..MaxBands :
         /\ names = Table(n)
         /\ start \in [1..n -> 0..MaxPrior]
         /\ \E c \in ValidCutoffs(n) : nPromoted = c[1] /\ nRelegated = c[2]
    /\ nSamplesPerBand \in 0..MaxTrials
    /\ nSamplesPerBand * Len(names) <= MaxTrials
    /\ absentBands \in AbsenceLists(names)
    /\ Locals

\* Whole batches, on any arguments: analyse validates none of them.
InitAny ==
    /\ \E n \in 0..MaxBands : names \in {Table(n), TableWithTwin(n)}
    /\ start \in [1..Len(names) -> 0..MaxPrior]
    /\ nPromoted \in 0..Len(names)
    /\ nRelegated \in 0..Len(names)
    /\ nSamplesPerBand \in 0..MaxTrials
    /\ nSamplesPerBand * Len(names) <= MaxTrials
    /\ absentBands \in LooseLists(names)
    /\ Locals

Raise(e) ==
    /\ pc' = "error"
    /\ err' = e

(***************************************************************************)
(* for i in range(nBands): the locals of a batch (lines 97-104, 146-151).  *)
(* np.zeros of a negative length raises ValueError.  The rows of the band  *)
(* before are on the console and no longer held.                           *)
(***************************************************************************)
StartBand ==
    /\ pc = "band"
    /\ i < nBands
    /\ IF absent[i + 1]
       THEN /\ promoted' = 0
            /\ stay' = 0
            /\ relegated' = 0
            /\ result' = Zeros(nBands)
            /\ landed' = Zeros(1)
            /\ pc' = "trial"
            /\ err' = err
       ELSE IF nPlayed < 0
       THEN /\ Raise("ValueError")
            /\ UNCHANGED <<promoted, stay, relegated, result, landed>>
       ELSE /\ promoted' = Zeros(nPlayed)
            /\ stay' = Zeros(nPlayed)
            /\ relegated' = Zeros(nPlayed)
            /\ result' = Zeros(nBands)
            /\ landed' = Zeros(nPlayed)
            /\ pc' = "trial"
            /\ err' = err
    /\ j' = 0
    /\ out' = <<>>
    /\ UNCHANGED <<inputs, i, final, iTotal, choices>>

(***************************************************************************)
(* One pass of "for j in range(...)": lines 105-125 and 152-174.           *)
(***************************************************************************)
Trial ==
    /\ pc = "trial"
    /\ j < Limit
    /\ \E c \in RandomDraws :
         LET d   == Draw(result, c)
             fin == Combine(start, d.result)
             tot == fin[i + 1]
             srt == Sort(fin)
             cls == Classify(tot, srt)
             bucket == IF absent[i + 1] THEN 0 ELSE BucketIndex(d.result)
         IN  /\ choices' = c
             /\ result' = d.result
             /\ IF ~d.ok
                THEN /\ Raise("ValueError")
                     /\ UNCHANGED <<start, final, iTotal, promoted, stay,
                                    relegated, j, landed>>
                ELSE /\ start' = StartAfterTrial(start, srt)
                     /\ final' = srt
                     /\ iTotal' = tot
                     /\ IF cls = "IndexError"
                           \/ (~absent[i + 1] /\ ~InRange(nPlayed, bucket))
                        THEN /\ Raise("IndexError")
                             /\ UNCHANGED <<promoted, stay, relegated, j, landed>>
                        ELSE /\ promoted' = Count(promoted, "promoted", cls, d.result)
                             /\ stay' = Count(stay, "stay", cls, d.result)
                             /\ relegated' = Count(relegated, "relegated", cls, d.result)
                             /\ landed' = [landed EXCEPT ![IF absent[i + 1] THEN 1
                                                            ELSE d.result[i + 1]] = @ + 1]
                             /\ j' = j + 1
                             /\ pc' = pc
                             /\ err' = err
    /\ UNCHANGED <<names, nPromoted, nRelegated, nSamplesPerBand, absentBands, i, out>>

(***************************************************************************)
(* After the batch: totals, percentages and the printed rows (lines        *)
(* 127-144 and 176-191).  The absent band's counters are Python ints:      *)
(* 100*promoted/total raises ZeroDivisionError when total is 0.            *)
(***************************************************************************)
Report ==
    /\ pc = "trial"
    /\ j >= Limit
    /\ IF absent[i + 1]
       THEN IF promoted + stay + relegated = 0
            THEN /\ Raise("ZeroDivisionError")
                 /\ UNCHANGED <<out, i>>
            ELSE /\ out' = AbsentRows
                 /\ i' = i + 1
                 /\ pc' = "band"
                 /\ err' = err
       ELSE /\ out' = PresentRows
            /\ i' = i + 1
            /\ pc' = "band"
            /\ err' = err
    /\ UNCHANGED <<inputs, j, promoted, stay, relegated, result, final, iTotal,
                   choices, landed>>

\* return (line 192)
Return ==
    /\ pc = "band"
    /\ i >= nBands
    /\ pc' = "done"
    /\ UNCHANGED <<inputs, i, j, promoted, stay, relegated, result, final,
                   iTotal, out, err, choices, landed>>

Next == StartBand \/ Trial \/ Report \/ Return

Spec == Init /\ [][Next]_vars

SpecAny == InitAny /\ [][Next]_vars

\* The first pass of the trial loop only.
FirstTrial == j = 0 /\ Trial

NextTrial == StartBand \/ FirstTrial \/ Report \/ Return

SpecTrial == InitTrial /\ [][NextTrial]_vars

(***************************************************************************)
(* Vocabulary of the properties.                                           *)
(***************************************************************************)
RECURSIVE SumSeq(_)
SumSeq(s) == IF s = <<>> THEN 0 ELSE Head(s) + SumSeq(Tail(s))

\* The configuration the specification calls valid.
ValidConfig ==
    /\ nBands >= 1
    /\ nPromoted >= 0
    /\ nRelegated >= 0
    /\ nPromoted + nRelegated < nBands

\* What the specification rejects as a configuration error.
BadConfig ==
    \/ nPromoted + nRelegated >= nBands
    \/ nBands <= 0
    \/ nSamplesPerBand <= 0

\* The table's names are unique and absentBands names distinct bands of it.
WellFormedAbsence ==
    /\ \A a, b \in 1..nBands : names[a] = names[b] => a = b
    /\ \A a, b \in 1..Len(absentBands) : absentBands[a] = absentBands[b] => a = b
    /\ Elements(absentBands) \subseteq Elements(names)

Present == {k \in 1..nBands : ~absent[k]}

\* The current batch is the target band's (1-based index i + 1).
InBatch == pc = "trial"

TargetAbsent == absent[i + 1]

\* A step of the trial loop starts here; a completed one leaves pc alone.
TrialEnabled == pc = "trial" /\ j < Limit

\* At least one trial of this batch has completed: result, final and iTotal are its.
TrialDone == pc = "trial" /\ j > 0

\* All increments a counter has received in this batch.
Tally(counter) == IF TargetAbsent THEN counter ELSE SumSeq(counter)

\* The unsorted final scores of the last trial.
Finals == Combine(start, result)

IsSorted(s) == \A a, b \in 1..Len(s) : a <= b => s[a] <= s[b]

\* The specification's cutoffs, on the sorted scores.
PromotionCutoff == final[nPromoted + 1]

RelegationCutoff == final[nBands - nRelegated + 1]

(***************************************************************************)
(* C1: on every valid configuration (nBands >= 1, nPromoted >= 0,          *)
(* nRelegated >= 0, nPromoted + nRelegated < nBands) the classification of *)
(* a trial raises no out-of-range index and increments exactly one of the  *)
(* counters.  The code raises IndexError when nRelegated = 0 and the       *)
(* target is not promoted: final[nBands - 0] is out of range.              *)
(***************************************************************************)
C1_ClassificationTotal ==
    [][(TrialEnabled /\ ValidConfig /\ WellFormedAbsence)
         => /\ err' = "none"
            /\ j' = j + 1
            /\ Tally(promoted)' + Tally(stay)' + Tally(relegated)'
                 = Tally(promoted) + Tally(stay) + Tally(relegated) + 1]_vars

(***************************************************************************)
(* C2: when nPromoted + nRelegated >= nBands, or nBands <= 0, or           *)
(* nSamplesPerBand <= 0, analyse ends in a configuration error before any  *)
(* trial is drawn or counted.  The code validates nothing: trials run.     *)
(***************************************************************************)
C2_BadConfigRunsNoTrial ==
    BadConfig => (j = 0 /\ pc # "done")

(***************************************************************************)
(* C3: in every trial on a valid configuration with nRelegated >= 1 the    *)
(* if / elif chain counts the target as promoted iff its final score is    *)
(* below sortedFinals[nPromoted], as relegated iff it is at or above       *)
(* sortedFinals[nBands - nRelegated] and as stay otherwise, and the two    *)
(* conditions never hold together.                                         *)
(***************************************************************************)
C3_ChainMatchesRule ==
    [][(TrialEnabled /\ ValidConfig /\ nRelegated >= 1 /\ pc' = "trial")
         => LET below == iTotal' < PromotionCutoff'
                atOrAbove == iTotal' >= RelegationCutoff'
            IN  /\ IsSorted(final')
                /\ final' = Sort(Combine(start, result'))
                /\ iTotal' = start[i + 1] + result'[i + 1]
                /\ ~(below /\ atOrAbove)
                /\ Tally(promoted)' = Tally(promoted) + (IF below THEN 1 ELSE 0)
                /\ Tally(relegated)' = Tally(relegated) + (IF atOrAbove THEN 1 ELSE 0)
                /\ Tally(stay)' = Tally(stay)
                                    + (IF ~below /\ ~atOrAbove THEN 1 ELSE 0)]_vars

\* A trial in which the target tied with the relegation cutoff and was relegated.
C3_Witness ==
    /\ TrialDone /\ ValidConfig /\ nRelegated >= 1 /\ nPromoted >= 1
    /\ iTotal = RelegationCutoff
    /\ iTotal = PromotionCutoff
    /\ Tally(relegated) = 1

(***************************************************************************)
(* C4: bucket conservation.  For a present target band, after any number   *)
(* of completed trials of its batch, promoted[p] + stay[p] + relegated[p]  *)
(* is the number of trials in which the target drew placing p, for every   *)
(* p in 1..nPresent; a trial increments exactly one counter, in the bucket *)
(* of the target's drawn placing (index result[i]-1, within range), and    *)
(* leaves all other buckets alone.                                         *)
(***************************************************************************)
Conserved ==
    (InBatch /\ ~TargetAbsent)
      => /\ Len(promoted) = nPlayed /\ Len(stay) = nPlayed /\ Len(relegated) = nPlayed
         /\ \A p \in 1..nPlayed : promoted[p] + stay[p] + relegated[p] = landed[p]
         /\ SumSeq(landed) = j

OneIncrement ==
    (TrialEnabled /\ ~TargetAbsent /\ pc' = "trial")
      => LET p == result'[i + 1]
         IN  /\ p \in 1..nPlayed
             /\ p - 1 \in 0..(nPlayed - 1)
             /\ \A q \in (1..nPlayed) \ {p} :
                    /\ promoted'[q] = promoted[q]
                    /\ stay'[q] = stay[q]
                    /\ relegated'[q] = relegated[q]
             /\ \/ /\ promoted'[p] = promoted[p] + 1
                   /\ stay'[p] = stay[p] /\ relegated'[p] = relegated[p]
                \/ /\ stay'[p] = stay[p] + 1
                   /\ promoted'[p] = promoted[p] /\ relegated'[p] = relegated[p]
                \/ /\ relegated'[p] = relegated[p] + 1
                   /\ promoted'[p] = promoted[p] /\ stay'[p] = stay[p]

\* C4: the buckets are conserved at all times and each trial makes one increment.
C4_BucketConservation == []Conserved /\ [][OneIncrement]_vars

\* Three trials of a present band, two of them in the same bucket.
C4_Witness ==
    /\ InBatch /\ ~TargetAbsent /\ j = 3
    /\ \E p \in 1..nPlayed : landed[p] = 2 /\ promoted[p] + relegated[p] = 2
    /\ \E p \in 1..nPlayed : landed[p] = 0

(***************************************************************************)
(* C5: when absentBands names distinct bands of the table, every trial of  *)
(* either loop gives the present bands pairwise distinct placings whose    *)
(* set is exactly 1..nPresent and gives every absent band nPresent + 1; an *)
(* absent target's placing is nPresent + 1 in each of its trials.          *)
(***************************************************************************)
C5_DrawIsPermutation ==
    (TrialDone /\ WellFormedAbsence)
      => /\ \A a, b \in Present : result[a] = result[b] => a = b
         /\ {result[k] : k \in Present} = 1..NumPresent
         /\ \A k \in 1..nBands : absent[k] => result[k] = NumPresent + 1
         /\ TargetAbsent => result[i + 1] = NumPresent + 1

\* A trial of an absent target, two present bands drawn in reverse order.
C5_Witness ==
    /\ TrialDone /\ WellFormedAbsence /\ TargetAbsent
    /\ NumPresent = 2
    /\ \E a, b \in Present : a < b /\ result[a] = 2 /\ result[b] = 1
    /\ result[i + 1] = 3

(***************************************************************************)
(* C6: a bucket whose total is 0 when the counts are converted (a placing  *)
(* no trial landed on, or the absent band's single bucket) is reported     *)
(* with its three percentages not-a-number, never 0, without a division    *)
(* error, and the other buckets and bands are still reported.  The absent  *)
(* band's counters are Python ints: a total of 0 raises ZeroDivisionError.  *)
(***************************************************************************)
RowIsNaN(r) == r.promote.nan /\ r.stay.nan /\ r.relegate.nan

RowIsNumber(r) == ~r.promote.nan /\ ~r.stay.nan /\ ~r.relegate.nan

\* C6: no division error, and every reported row of an empty bucket is not-a-number.
C6_ZeroBucketIsNaN ==
    /\ err # "ZeroDivisionError"
    /\ (pc = "band" /\ i > 0)
         => IF absent[i]
            THEN /\ Len(out) = 1
                 /\ IF promoted + stay + relegated = 0
                    THEN RowIsNaN(out[1]) ELSE RowIsNumber(out[1])
            ELSE /\ Len(out) = nPlayed
                 /\ \A k \in 1..nPlayed :
                        IF promoted[k] + stay[k] + relegated[k] = 0
                        THEN RowIsNaN(out[k]) ELSE RowIsNumber(out[k])

(***************************************************************************)
(* C7: the pop-based draw maps the sequences of index choices one-to-one   *)
(* onto the permutations of 1..nPresent over the present bands: every      *)
(* permutation is the image of exactly one choice sequence, whichever      *)
(* bands are absent, so uniform choices give uniform permutations.  (As    *)
(* many images as choice sequences: no two sequences share an image.)      *)
(***************************************************************************)
PlacingsOf(res) == [k \in Present |-> res[k]]

Permutations ==
    {f \in [Present -> 1..NumPresent] : \A a, b \in Present : f[a] = f[b] => a = b}

\* C7: the choice sequences and the permutations correspond one-to-one.
C7_DrawIsBijection ==
    (TrialDone /\ WellFormedAbsence)
      => LET image(c) == PlacingsOf(Draw(Zeros(nBands), c).result)
             images == {image(c) : c \in RandomDraws}
         IN  /\ \A c \in RandomDraws : Draw(Zeros(nBands), c).ok
             /\ \A c \in RandomDraws : \A t \in 1..Len(c) : c[t] \in 0..(NumPresent - t)
             /\ images = Permutations
             /\ Cardinality(images) = Cardinality(RandomDraws)
             /\ choices \in RandomDraws
             /\ PlacingsOf(result) = image(choices)

\* Three present bands beside an absent one, drawn neither in order nor reversed.
C7_Witness ==
    /\ TrialDone /\ WellFormedAbsence
    /\ NumPresent = 3 /\ NumPresent > nBands - 2
    /\ choices = <<1, 1, 0>>
    /\ PlacingsOf(result) \in Permutations

(***************************************************************************)
(* C8: for every absentBands list, names of no band and names of several   *)
(* bands included, nPresent = nBands - |absentBands| is the number of      *)
(* bands not flagged absent, so a trial's placings hold one value per      *)
(* present band and the draw never pops from an empty list.  The code      *)
(* subtracts the length of the list whatever it names: an unknown name     *)
(* leaves fewer placings than present bands, and randrange(0) raises       *)
(* ValueError.                                                             *)
(***************************************************************************)
C8_PlacingsMatchPresent ==
    (j > 0 \/ err = "ValueError") => (nPlayed = NumPresent /\ err # "ValueError")

(***************************************************************************)
(* C9: tie policy.  In every trial on a valid configuration with           *)
(* nRelegated >= 1, classifying each band of the section gives at most     *)
(* nPromoted promoted bands and at least nRelegated relegated ones; a band *)
(* tied with sortedFinals[nPromoted] is never promoted and a band tied     *)
(* with sortedFinals[nBands - nRelegated] is always relegated; with        *)
(* pairwise distinct scores exactly nPromoted are promoted and exactly     *)
(* nRelegated relegated: the band of ascending rank r is promoted iff      *)
(* r <= nPromoted and relegated iff r > nBands - nRelegated.               *)
(***************************************************************************)
ClassOf(b) == Classify(Finals[b], final)

Rank(b) == 1 + Cardinality({a \in 1..nBands : Finals[a] < Finals[b]})

\* C9: the counts of promoted and relegated bands against the nominal slots.
C9_TiePolicy ==
    (TrialDone /\ ValidConfig /\ nRelegated >= 1)
      => LET up == {b \in 1..nBands : ClassOf(b) = "promoted"}
             down == {b \in 1..nBands : ClassOf(b) = "relegated"}
             distinct == \A a, b \in 1..nBands : Finals[a] = Finals[b] => a = b
         IN  /\ \A b \in 1..nBands : ClassOf(b) \in {"promoted", "stay", "relegated"}
             /\ Cardinality(up) <= nPromoted
             /\ Cardinality(down) >= nRelegated
             /\ \A b \in 1..nBands : Finals[b] = PromotionCutoff => b \notin up
             /\ \A b \in 1..nBands : Finals[b] = RelegationCutoff => b \in down
             /\ distinct
                  => /\ Cardinality(up) = nPromoted
                     /\ Cardinality(down) = nRelegated
                     /\ \A b \in 1..nBands :
                            /\ b \in up <=> Rank(b) <= nPromoted
                            /\ b \in down <=> Rank(b) > nBands - nRelegated

\* Scores tied at the promotion cutoff: one slot, nobody promoted, two relegated for one slot.
C9_Witness ==
    /\ TrialDone /\ ValidConfig /\ nBands = 3 /\ nPromoted = 1 /\ nRelegated = 1
    /\ Cardinality({b \in 1..nBands : ClassOf(b) = "promoted"}) = 0
    /\ Cardinality({b \in 1..nBands : ClassOf(b) = "relegated"}) > 1

(***************************************************************************)
(* C10: no state leaks between trials or bands.  A trial, its in-place     *)
(* sort included, leaves start and the absence flags unchanged; the reused *)
(* result array is overwritten in full, so it holds what the trial's own   *)
(* choices give from any earlier content; a band's counters start at zero  *)
(* and change only in that band's own trials.                              *)
(***************************************************************************)
Stale == [k \in 1..nBands |-> -1]

TrialFrame ==
    TrialEnabled => /\ start' = start
                    /\ absent' = absent
                    /\ names' = names
                    /\ i' = i

FreshResult == TrialDone => result = Draw(Stale, choices).result

CountersOwned ==
    /\ (pc = "band" /\ pc' = "trial")
         => /\ Tally(promoted)' = 0 /\ Tally(stay)' = 0 /\ Tally(relegated)' = 0
            /\ j' = 0
            /\ result' = Zeros(nBands)
    /\ \/ pc = "band" /\ pc' = "trial"
       \/ <<promoted, stay, relegated>>' = <<promoted, stay, relegated>>
       \/ TrialEnabled /\ i' = i /\ j' = j + 1

\* C10: nothing of an earlier trial or band survives into a later one.
C10_NoLeak == []FreshResult /\ [][TrialFrame /\ CountersOwned]_vars

\* The second band's batch has run a trial after the first band's batch counted two.
C10_Witness ==
    /\ TrialDone /\ i = 1 /\ j = 2 /\ ~TargetAbsent
    /\ \E k \in 1..nBands : absent[k]
    /\ final # Finals
    /\ Tally(promoted) + Tally(stay) + Tally(relegated) = 2

====
